---- MODULE Spec2Model ----
(***************************************************************************)
(* The two-level statistics cache of statistics/handle/cache/internal/lru: *)
(* StatsInnerCache (table id -> Table) over innerItemLruCache (one entry   *)
(* per column / index, evicted from the back), snapshots made by Copy and  *)
(* published through the cache pointer.                                    *)
(***************************************************************************)
EXTENDS Integers, Sequences, FiniteSets, TLC

(***************************************************************************)
(* Bounds of the model.                                                    *)
(***************************************************************************)
\* number of public operations explored from a new cache
MaxOps == 3

\* math.MaxInt64, the capacity of an unbounded cache; no arithmetic is done
\* on it, it is only compared with trackingCost.
MaxInt64 == 2147483647

\* table ids used as keys of the outer map
TableIDs == {1, 2}
\* column ids and index ids that tables use
ItemIDs == {1, 2}
\* snapshots that can be alive at the same time
SnapIDs == {1, 2, 3}
\* arguments of NewStatsLruCache and SetCapacity (0: unbounded)
Caps == {0, 1, 4}
\* goroutines of benchCopyAndUpdate
Writers == {1, 2}

\* the nil *list.Element
Nil == <<>>

(***************************************************************************)
(* statistics.TableCacheItem.  An item is a column or index statistic; it  *)
(* goes through eviction stages, DropEvicted moves it one stage on, and    *)
(* its tracking memory usage only shrinks.  ItemMems[i][k] is the tracking *)
(* memory usage of item i at stage k.  The last stage of an item that has  *)
(* more than one stage is "all evicted" (nothing is left, memory 0).  Item *)
(* "z" has no statistics loaded: memory 0, DropEvicted does nothing and it *)
(* is not "all evicted".                                                   *)
(***************************************************************************)
ItemMems ==
  [a |-> <<3, 2, 0>>, b |-> <<3, 2, 0>>, c |-> <<2, 0>>, z |-> <<0>>]

Items == DOMAIN ItemMems

\* statistics.Table: Columns and Indices map an id to an item.  Tables may
\* share items (a Table copy shares its columns with the original).
Tables ==
  [T1 |-> [Columns |-> (1 :> "c"), Indices |-> <<>>],
   T2 |-> [Columns |-> (1 :> "b"), Indices |-> <<>>],
   T3 |-> [Columns |-> (1 :> "c" @@ 2 :> "a"), Indices |-> <<>>],
   T4 |-> [Columns |-> (1 :> "z"), Indices |-> <<>>],
   T5 |-> [Columns |-> (1 :> "a"), Indices |-> (1 :> "b")]]

TableNames == DOMAIN Tables

VARIABLES
  snaps,     \* the live snapshots: snapshot id -> StatsInnerCache struct, the
             \* addresses [elements, lru] of its map and of its inner LRU
  maps,      \* address -> map[int64]*lruMapElement
  lrus,      \* address -> innerItemLruCache
  status,    \* item -> its eviction stage (the items are shared by all snapshots)
  ptr,       \* the cache pointer: the snapshot it holds
  writers,   \* writer -> [pc, loaded, derived, tbl]
  lastOp,    \* the last completed public operation and its arguments
  evicted,   \* the entries touched by eviction during the last operation
  nops,      \* number of operations done
  walk       \* the call of evictIfNeeded that is being followed step by step:
             \* [pc, curr, id, start]

vars == <<snaps, maps, lrus, status, ptr, writers, lastOp, evicted, nops, walk>>

(***************************************************************************)
(* TableCacheItem                                                          *)
(***************************************************************************)
\* item.MemoryUsage().TrackingMemUsage()
TrackingMemUsage(st, item) == ItemMems[item][st[item]]

\* item.IsAllEvicted()
IsAllEvicted(st, item) ==
  Len(ItemMems[item]) > 1 /\ st[item] = Len(ItemMems[item])

\* statistics.DropEvicted(item): drops the next structure of the item
DropEvicted(st, item) ==
  IF st[item] < Len(ItemMems[item]) THEN [st EXCEPT ![item] = @ + 1] ELSE st

\* tbl.MemoryUsage(): the per column and per index memory usage
TableMemoryUsage(st, tbl) ==
  [ColumnsMemUsage |->
     [i \in DOMAIN Tables[tbl].Columns |-> TrackingMemUsage(st, Tables[tbl].Columns[i])],
   IndicesMemUsage |->
     [i \in DOMAIN Tables[tbl].Indices |-> TrackingMemUsage(st, Tables[tbl].Indices[i])]]

(***************************************************************************)
(* container/list, front first.  An element is an lruCacheItem             *)
(*   [tblID, id, isIndex, innerItem, innerMemUsage];                       *)
(* a *list.Element is named by the key <<tblID, isIndex, id>> of the       *)
(* lruCacheItem it holds.                                                  *)
(***************************************************************************)
KeyOf(e) == <<e.tblID, e.isIndex, e.id>>

\* position of the element with this key, 0 when the list has none
IndexOf(cache, key) ==
  IF \E i \in 1..Len(cache) : KeyOf(cache[i]) = key
  THEN CHOOSE i \in 1..Len(cache) :
         /\ KeyOf(cache[i]) = key
         /\ \A j \in 1..(i - 1) : KeyOf(cache[j]) # key
  ELSE 0

RemoveAt(cache, pos) ==
  [i \in 1..(Len(cache) - 1) |-> IF i < pos THEN cache[i] ELSE cache[i + 1]]

\* list.Remove(e)
ListRemove(cache, key) ==
  IF IndexOf(cache, key) = 0 THEN cache ELSE RemoveAt(cache, IndexOf(cache, key))

\* list.MoveToFront(e)
MoveToFront(cache, key) ==
  IF IndexOf(cache, key) = 0 THEN cache
  ELSE <<cache[IndexOf(cache, key)]>> \o RemoveAt(cache, IndexOf(cache, key))

\* list.PushFront(v)
PushFront(cache, item) == <<item>> \o cache

\* the front element taken for the back one
BackFromFront(cache) == IF Len(cache) = 0 THEN Nil ELSE KeyOf(cache[1])

\* list.Back()
Back(cache) == IF Len(cache) = 0 THEN Nil ELSE KeyOf(cache[Len(cache)])

\* e.Prev()
Prev(cache, key) ==
  IF IndexOf(cache, key) <= 1 THEN Nil ELSE KeyOf(cache[IndexOf(cache, key) - 1])

(***************************************************************************)
(* innerItemLruCache: [elements, cache, capacity, trackingCost].  elements *)
(* is the three-level index tableID -> isIndex -> id -> *list.Element,     *)
(* kept as the set of keys that have an element.                           *)
(***************************************************************************)
\* the capacity taken as it is given
newInnerLruCacheAsGiven(c) ==
  [elements |-> {}, cache |-> <<>>, capacity |-> c, trackingCost |-> 0]

newInnerLruCache(c) ==
  [elements |-> {},
   cache |-> <<>>,
   capacity |-> IF c < 1 THEN MaxInt64 ELSE c,
   trackingCost |-> 0]

\* the cost with the old usage not taken off
calculateCostAddOnly(c, newUsage, oldUsage) ==
  [c EXCEPT !.trackingCost = @ + newUsage]

\* c.trackingCost += newUsage.TrackingMemUsage() - oldUsage.TrackingMemUsage()
calculateCost(c, newUsage, oldUsage) ==
  [c EXCEPT !.trackingCost = @ + newUsage - oldUsage]

\* the get that leaves the list as it is
lruGetNoMove(c, tblID, id, isIndex) == c

\* innerItemLruCache.get: on a hit the element moves to the front
lruGet(c, tblID, id, isIndex) ==
  IF <<tblID, isIndex, id>> \notin c.elements THEN c
  ELSE [c EXCEPT !.cache = MoveToFront(@, <<tblID, isIndex, id>>)]

\* innerItemLruCache.del
lruDel(c, tblID, id, isIndex) ==
  IF <<tblID, isIndex, id>> \notin c.elements THEN c
  ELSE LET key == <<tblID, isIndex, id>>
           pos == IndexOf(c.cache, key)
           memUsage == IF pos = 0 THEN 0 ELSE c.cache[pos].innerMemUsage
       IN calculateCost([c EXCEPT !.elements = @ \ {key},
                                  !.cache = ListRemove(@, key)],
                        0, memUsage)

(***************************************************************************)
(* A world is what an operation on one snapshot reads and writes:          *)
(*   s       the StatsInnerCache [elements, lru]; elements maps a table id *)
(*           to its lruMapElement [tbl, tblMemUsage]                       *)
(*   status  the eviction stage of every item                              *)
(*   log     the entries eviction touched, in order                        *)
(***************************************************************************)
\* the callback not called: the cached table memory usage is left as it was
onEvictSkipped(W, tblID) == W

\* the callback dropping the outer entry of the table
onEvictDropsEntry(W, tblID) ==
  [W EXCEPT !.s.elements = [i \in DOMAIN @ \ {tblID} |-> @[i]]]

\* StatsInnerCache.onEvict
onEvict(W, tblID) ==
  IF tblID \notin DOMAIN W.s.elements THEN W
  ELSE [W EXCEPT !.s.elements[tblID].tblMemUsage =
                    TableMemoryUsage(W.status, W.s.elements[tblID].tbl)]

\* the iteration that parks the entry at the front and drops nothing
evictOneNoDrop(W, curr, run) ==
  LET W1 == [W EXCEPT !.s.lru.cache = MoveToFront(@, curr),
                      !.log = Append(@, [key |-> curr, removed |-> FALSE,
                                         run |-> run.id, start |-> run.start])]
  IN onEvict(W1, curr[1])

\* one iteration of the loop of innerItemLruCache.evictIfNeeded on the
\* element curr, from DropEvicted to the onEvict callback.  run names the
\* call of evictIfNeeded for the log: [id, start], start the keys of the list
\* (front first) when the call began.
evictOne(W, curr, run) ==
  LET c == W.s.lru
      pos == IndexOf(c.cache, curr)
      item == c.cache[pos]
      oldMem == item.innerMemUsage
      status1 == DropEvicted(W.status, item.innerItem)
      newMem == TrackingMemUsage(status1, item.innerItem)
      c1 == calculateCost(c, newMem, oldMem)
      remove == newMem = 0 \/ IsAllEvicted(status1, item.innerItem)
      c2 == IF remove
            THEN [c1 EXCEPT !.cache = ListRemove(@, curr),
                            !.elements = @ \ {curr}]
            ELSE [c1 EXCEPT !.cache =
                    <<[item EXCEPT !.innerMemUsage = newMem]>> \o RemoveAt(@, pos)]
      W1 == [W EXCEPT !.s.lru = c2,
                      !.status = status1,
                      !.log = Append(@, [key |-> curr, removed |-> remove,
                                         run |-> run.id, start |-> run.start])]
  IN onEvict(W1, item.tblID)

\* the loop of innerItemLruCache.evictIfNeeded, curr a *list.Element; prev is
\* read before the iteration changes the list
RECURSIVE evictLoop(_, _, _)
evictLoop(W, curr, run) ==
  IF ~(W.s.lru.trackingCost > W.s.lru.capacity /\ curr # Nil) THEN W
  ELSE evictLoop(evictOne(W, curr, run), Prev(W.s.lru.cache, curr), run)

\* the keys of the list, front first
ListKeys(cache) == [i \in 1..Len(cache) |-> KeyOf(cache[i])]

\* innerItemLruCache.evictIfNeeded
evictIfNeeded(W) ==
  evictLoop(W, Back(W.s.lru.cache),
            [id |-> Len(W.log), start |-> ListKeys(W.s.lru.cache)])

\* the put taking every item, also one whose memory usage is below 1
lruPutItemAnyMem(c, tblID, id, isIndex, item, itemMem, needMove) ==
  LET key == <<tblID, isIndex, id>>
      pos == IndexOf(c.cache, key)
      entry == [tblID |-> tblID, id |-> id, isIndex |-> isIndex,
                innerItem |-> item, innerMemUsage |-> itemMem]
  IN IF key \in c.elements
     THEN calculateCost(
            [c EXCEPT !.cache = IF needMove THEN <<entry>> \o RemoveAt(@, pos)
                                ELSE [@ EXCEPT ![pos] = entry]],
            itemMem, c.cache[pos].innerMemUsage)
     ELSE calculateCost([c EXCEPT !.cache = PushFront(@, entry),
                                  !.elements = @ \cup {key}],
                        itemMem, 0)

\* the put that pushes a new element and does not enter it in the index
lruPutItemNotIndexed(c, tblID, id, isIndex, item, itemMem, needMove) ==
  LET key == <<tblID, isIndex, id>>
      pos == IndexOf(c.cache, key)
      entry == [tblID |-> tblID, id |-> id, isIndex |-> isIndex,
                innerItem |-> item, innerMemUsage |-> itemMem]
  IN IF itemMem < 1 THEN c
     ELSE IF key \in c.elements
     THEN calculateCost(
            [c EXCEPT !.cache = IF needMove THEN <<entry>> \o RemoveAt(@, pos)
                                ELSE [@ EXCEPT ![pos] = entry]],
            itemMem, c.cache[pos].innerMemUsage)
     ELSE calculateCost([c EXCEPT !.cache = PushFront(@, entry)], itemMem, 0)

\* innerItemLruCache.put without its deferred evictIfNeeded
lruPutItem(c, tblID, id, isIndex, item, itemMem, needMove) ==
  LET key == <<tblID, isIndex, id>>
      pos == IndexOf(c.cache, key)
  IN IF itemMem < 1 THEN c
     ELSE IF key \in c.elements
     THEN LET oldMemUsage == c.cache[pos].innerMemUsage
              c1 == [c EXCEPT !.cache[pos].innerItem = item,
                              !.cache[pos].innerMemUsage = itemMem]
              c2 == calculateCost(c1, itemMem, oldMemUsage)
          IN IF needMove THEN [c2 EXCEPT !.cache = MoveToFront(@, key)] ELSE c2
     ELSE calculateCost(
            [c EXCEPT !.cache = PushFront(@, [tblID |-> tblID, id |-> id,
                                              isIndex |-> isIndex,
                                              innerItem |-> item,
                                              innerMemUsage |-> itemMem]),
                      !.elements = @ \cup {key}],
            itemMem, 0)

\* innerItemLruCache.put
lruPut(W, tblID, id, isIndex, item, itemMem, needEvict, needMove) ==
  LET W1 == [W EXCEPT !.s.lru = lruPutItem(@, tblID, id, isIndex, item, itemMem, needMove)]
  IN IF needEvict THEN evictIfNeeded(W1) ELSE W1

\* innerItemLruCache.copy: puts the elements from the back to the front
RECURSIVE lruCopyFrom(_, _, _)
lruCopyFrom(c, newLRU, n) ==
  IF n = 0 THEN newLRU
  ELSE lruCopyFrom(c,
         lruPutItem(newLRU, c.cache[n].tblID, c.cache[n].id, c.cache[n].isIndex,
                    c.cache[n].innerItem, c.cache[n].innerMemUsage, FALSE),
         n - 1)

\* the copy walking the list from the front to the back
RECURSIVE lruCopyFromFront(_, _, _)
lruCopyFromFront(c, newLRU, n) ==
  IF n > Len(c.cache) THEN newLRU
  ELSE lruCopyFromFront(c,
         lruPutItem(newLRU, c.cache[n].tblID, c.cache[n].id, c.cache[n].isIndex,
                    c.cache[n].innerItem, c.cache[n].innerMemUsage, FALSE),
         n + 1)

lruCopyFrontFirst(c) == lruCopyFromFront(c, newInnerLruCache(c.capacity), 1)

lruCopy(c) == lruCopyFrom(c, newInnerLruCache(c.capacity), Len(c.cache))

\* innerItemLruCache.setCapacity
setCapacity(W, capacity) ==
  evictIfNeeded([W EXCEPT !.s.lru.capacity = IF capacity < 1 THEN MaxInt64 ELSE capacity])

(***************************************************************************)
(* StatsInnerCache.  Go ranges over a map in an order it does not fix: an  *)
(* order of a map is a sequence holding every key of the map once, and a   *)
(* range loop visits the keys in that order.                               *)
(***************************************************************************)
Orders(S) ==
  {o \in [1..Cardinality(S) -> S] : \A i, j \in 1..Cardinality(S) : o[i] = o[j] => i = j}

\* the orders of the columns (isIndex = FALSE) or the indices of a table
ItemOrders(tbl, isIndex) ==
  Orders(DOMAIN (IF isIndex THEN Tables[tbl].Indices ELSE Tables[tbl].Columns))

\* one order of the columns, or of the indices, for each table of the outer map
AnyOrders == UNION {Orders(S) : S \in SUBSET ItemIDs}

TableOrders(elements, isIndex) ==
  {f \in [DOMAIN elements -> AnyOrders] :
     \A i \in DOMAIN elements : f[i] \in ItemOrders(elements[i].tbl, isIndex)}

\* NewStatsLruCache
NewStatsLruCache(c) == [elements |-> <<>>, lru |-> newInnerLruCache(c)]

\* the ids of the table's columns (isIndex = FALSE) or indices (TRUE)
TableItems(tbl, isIndex) ==
  IF isIndex THEN Tables[tbl].Indices ELSE Tables[tbl].Columns

\* the loops "for _, colID := range deletedCol { s.lru.del(...) }"
RECURSIVE delAll(_, _, _, _)
delAll(c, tblID, ids, isIndex) ==
  IF ids = {} THEN c
  ELSE LET id == CHOOSE i \in ids : TRUE
       IN delAll(lruDel(c, tblID, id, isIndex), tblID, ids \ {id}, isIndex)

\* the loops "for colID, col := range tbl.Columns { s.lru.put(...) }"
RECURSIVE putAll(_, _, _, _, _, _, _)
putAll(W, tblID, tbl, mem, isIndex, needMove, ids) ==
  IF ids = <<>> THEN W
  ELSE putAll(lruPut(W, tblID, Head(ids), isIndex, TableItems(tbl, isIndex)[Head(ids)],
                     mem[Head(ids)], TRUE, needMove),
              tblID, tbl, mem, isIndex, needMove, Tail(ids))

\* the ids the inner index holds for the table: s.lru.elements[tblID][isIndex]
IndexedIDs(c, tblID, isIndex) ==
  {i \in ItemIDs : <<tblID, isIndex, i>> \in c.elements}

\* updateColumns without the del of the columns the new table dropped
updateColumnsNoDel(W, tblID, tbl, tblMemUsage, needMove, ord) ==
  putAll(W, tblID, tbl, tblMemUsage.ColumnsMemUsage, FALSE, needMove, ord)

\* StatsInnerCache.updateColumns
updateColumns(W, tblID, tbl, tblMemUsage, needMove, ord) ==
  LET exist == tblID \in DOMAIN W.s.elements
      deletedCol == {i \in IndexedIDs(W.s.lru, tblID, FALSE) :
                       i \notin DOMAIN Tables[tbl].Columns}
      W1 == IF exist
            THEN [W EXCEPT !.s.lru = delAll(@, tblID, deletedCol, FALSE)]
            ELSE W
  IN putAll(W1, tblID, tbl, tblMemUsage.ColumnsMemUsage, FALSE, needMove,
            ord)

\* StatsInnerCache.updateIndices
updateIndices(W, tblID, tbl, tblMemUsage, needMove, ord) ==
  LET exist == tblID \in DOMAIN W.s.elements
      deletedIdx == {i \in IndexedIDs(W.s.lru, tblID, TRUE) :
                       i \notin DOMAIN Tables[tbl].Indices}
      W1 == IF exist
            THEN [W EXCEPT !.s.lru = delAll(@, tblID, deletedIdx, TRUE)]
            ELSE W
  IN putAll(W1, tblID, tbl, tblMemUsage.IndicesMemUsage, TRUE, needMove,
            ord)

\* the map s.elements with tblID set to element
SetElement(elements, tblID, element) ==
  [i \in DOMAIN elements \cup {tblID} |-> IF i = tblID THEN element ELSE elements[i]]

\* StatsInnerCache.put; colOrd and idxOrd are the orders of its two range loops
put(W, tblID, tbl, tblMemUsage, needMove, colOrd, idxOrd) ==
  LET W1 == updateColumns(W, tblID, tbl, tblMemUsage, needMove, colOrd)
      W2 == updateIndices(W1, tblID, tbl, tblMemUsage, needMove, idxOrd)
  IN [W2 EXCEPT !.s.elements =
        SetElement(@, tblID, [tbl |-> tbl,
                              tblMemUsage |-> TableMemoryUsage(W2.status, tbl)])]

\* StatsInnerCache.Put
Put(W, tblID, tbl, moveLRUFront, colOrd, idxOrd) ==
  put(W, tblID, tbl, TableMemoryUsage(W.status, tbl), moveLRUFront, colOrd, idxOrd)

\* the loops "for idxID := range element.tbl.Indices { s.lru.get(...) }"
RECURSIVE getAll(_, _, _, _)
getAll(c, tblID, isIndex, ids) ==
  IF ids = <<>> THEN c
  ELSE getAll(lruGet(c, tblID, Head(ids), isIndex), tblID, isIndex, Tail(ids))

\* StatsInnerCache.getByQuery
getByQuery(W, tblID, colOrd, idxOrd) ==
  IF tblID \notin DOMAIN W.s.elements THEN W
  ELSE LET tbl == W.s.elements[tblID].tbl
           c1 == getAll(W.s.lru, tblID, TRUE, idxOrd)
           c2 == getAll(c1, tblID, FALSE, colOrd)
       IN [W EXCEPT !.s.lru = c2]

\* StatsInnerCache.Get: the cache after the call
Get(W, tblID, moveLRUFront, colOrd, idxOrd) ==
  IF moveLRUFront THEN getByQuery(W, tblID, colOrd, idxOrd) ELSE W

\* what StatsInnerCache.Get returns: <<table, found>>
GetResult(s, tblID) ==
  IF tblID \in DOMAIN s.elements THEN <<s.elements[tblID].tbl, TRUE>> ELSE <<"", FALSE>>

\* the Del that leaves the indices of the table in the inner LRU
DelColumnsOnly(W, tblID) ==
  IF tblID \notin DOMAIN W.s.elements THEN W
  ELSE [W EXCEPT !.s.lru = delAll(@, tblID, DOMAIN Tables[W.s.elements[tblID].tbl].Columns,
                                  FALSE),
                 !.s.elements = [i \in DOMAIN @ \ {tblID} |-> @[i]]]

\* StatsInnerCache.Del
Del(W, tblID) ==
  IF tblID \notin DOMAIN W.s.elements THEN W
  ELSE LET tbl == W.s.elements[tblID].tbl
           c1 == delAll(W.s.lru, tblID, DOMAIN Tables[tbl].Indices, TRUE)
           c2 == delAll(c1, tblID, DOMAIN Tables[tbl].Columns, FALSE)
       IN [W EXCEPT !.s.lru = c2,
                    !.s.elements = [i \in DOMAIN @ \ {tblID} |-> @[i]]]

\* StatsInnerCache.Cost
Cost(s) == s.lru.trackingCost

\* StatsInnerCache.Keys
Keys(s) == DOMAIN s.elements

\* StatsInnerCache.Len
SLen(s) == Cardinality(DOMAIN s.elements)

\* StatsInnerCache.capacity
capacity(s) == s.lru.capacity

\* the snapshot has no capacity bound
Unbounded(s) == capacity(s) < 1 \/ capacity(s) = MaxInt64

\* StatsInnerCache.Front
Front(s) == IF Len(s.lru.cache) = 0 THEN 0 ELSE s.lru.cache[1].tblID

\* StatsInnerCache.freshTableCost
freshTableCost(W, tblID, colOrd, idxOrd) ==
  LET tbl == W.s.elements[tblID].tbl
      usage == TableMemoryUsage(W.status, tbl)
      W1 == [W EXCEPT !.s.elements[tblID].tblMemUsage = usage]
  IN put(W1, tblID, tbl, usage, FALSE, colOrd, idxOrd)

\* StatsInnerCache.TotalCost: tblOrd is the order of its range over s.elements,
\* colOrds[id] and idxOrds[id] the orders used for table id
RECURSIVE freshAll(_, _, _, _)
freshAll(W, ids, colOrds, idxOrds) ==
  IF ids = <<>> THEN W
  ELSE freshAll(freshTableCost(W, Head(ids), colOrds[Head(ids)], idxOrds[Head(ids)]),
                Tail(ids), colOrds, idxOrds)

TotalCost(W, tblOrd, colOrds, idxOrds) ==
  freshAll(W, tblOrd, colOrds, idxOrds)

\* lruMapElement.copy
elementCopy(l) == [tbl |-> l.tbl, tblMemUsage |-> l.tblMemUsage]

\* the copy with an empty outer map
CopyWithoutElements(s) == [elements |-> <<>>, lru |-> lruCopy(s.lru)]

\* StatsInnerCache.Copy: the contents of the new cache
Copy(s) ==
  [elements |-> [i \in DOMAIN s.elements |-> elementCopy(s.elements[i])],
   lru |-> lruCopy(s.lru)]

\* the copy sharing the inner LRU of its source
CopyRefsSharedLRU(old, new) == [elements |-> new, lru |-> old]

\* StatsInnerCache.Copy: the new StatsInnerCache struct.  A StatsInnerCache
\* holds a reference to its map and one to its innerItemLruCache; the copy
\* gets a map and an LRU of its own, allocated at address new.
CopyRefs(old, new) == [elements |-> new, lru |-> new]

\* StatsInnerCache.SetCapacity
SetCapacity(W, c) == setCapacity(W, c)

(***************************************************************************)
(* The state machine: public operations on the live snapshots.             *)
(***************************************************************************)
\* the cache that the struct h refers to, and the cache of snapshot sid
Deref(h, ms, ls) == [elements |-> ms[h.elements], lru |-> ls[h.lru]]

View(sid) == Deref(snaps[sid], maps, lrus)

World(sid) == [s |-> View(sid), status |-> status, log |-> <<>>]

\* the record of an operation; old is the table the outer map held for tblID
\* when a Put, Get or Del started ("" when it held none)
Op(name, sid, tblID, tbl, move, c) ==
  [op |-> name, s |-> sid, tblID |-> tblID, tbl |-> tbl, move |-> move, c |-> c,
   old |-> IF name \in {"Put", "Get", "Del"} /\ tblID \in DOMAIN View(sid).elements
           THEN View(sid).elements[tblID].tbl ELSE ""]

\* no call of evictIfNeeded is being followed
NoWalk == [pc |-> "idle", curr |-> Nil, id |-> 0, start |-> <<>>]

NoWriter == [pc |-> "idle", loaded |-> 0, derived |-> 0, tblID |-> 0, tbl |-> ""]

\* the state after an operation on snapshot sid that ends in world W
Done(sid, W, op) ==
  /\ nops < MaxOps
  /\ maps' = [maps EXCEPT ![snaps[sid].elements] = W.s.elements]
  /\ lrus' = [lrus EXCEPT ![snaps[sid].lru] = W.s.lru]
  /\ status' = W.status
  /\ evicted' = W.log
  /\ lastOp' = op
  /\ nops' = nops + 1
  /\ UNCHANGED <<snaps, ptr, writers, walk>>

\* the orders Get can visit the columns or the indices of table tblID in
GetOrders(s, tblID, isIndex) ==
  IF tblID \in DOMAIN s.elements THEN ItemOrders(s.elements[tblID].tbl, isIndex) ELSE {<<>>}

\* the address a new snapshot is allocated at
NewAddr == CHOOSE n \in SnapIDs \ DOMAIN snaps : \A o \in SnapIDs \ DOMAIN snaps : n <= o

Init ==
  /\ snaps = (1 :> [elements |-> 1, lru |-> 1])
  /\ \E c \in Caps :
       /\ maps = (1 :> NewStatsLruCache(c).elements)
       /\ lrus = (1 :> NewStatsLruCache(c).lru)
  /\ status = [i \in Items |-> 1]
  /\ ptr = 1
  /\ writers = [w \in Writers |-> NoWriter]
  /\ lastOp = Op("New", 1, 0, "", FALSE, 0)
  /\ evicted = <<>>
  /\ nops = 0
  /\ walk = NoWalk

DoPut ==
  \E sid \in DOMAIN snaps, tblID \in TableIDs, tbl \in TableNames, move \in BOOLEAN :
   \E colOrd \in ItemOrders(tbl, FALSE), idxOrd \in ItemOrders(tbl, TRUE) :
    Done(sid, Put(World(sid), tblID, tbl, move, colOrd, idxOrd),
         Op("Put", sid, tblID, tbl, move, 0))

DoGet ==
  \E sid \in DOMAIN snaps, tblID \in TableIDs, move \in BOOLEAN :
   \E colOrd \in GetOrders(View(sid), tblID, FALSE),
      idxOrd \in GetOrders(View(sid), tblID, TRUE) :
    Done(sid, Get(World(sid), tblID, move, colOrd, idxOrd),
         Op("Get", sid, tblID, "", move, 0))

DoDel ==
  \E sid \in DOMAIN snaps, tblID \in TableIDs :
    Done(sid, Del(World(sid), tblID), Op("Del", sid, tblID, "", FALSE, 0))

DoSetCapacity ==
  \E sid \in DOMAIN snaps, c \in Caps :
    Done(sid, SetCapacity(World(sid), c), Op("SetCapacity", sid, 0, "", FALSE, c))

DoTotalCost ==
  \E sid \in DOMAIN snaps :
   \E tblOrd \in Orders(DOMAIN View(sid).elements),
      colOrds \in TableOrders(View(sid).elements, FALSE),
      idxOrds \in TableOrders(View(sid).elements, TRUE) :
    Done(sid, TotalCost(World(sid), tblOrd, colOrds, idxOrds),
         Op("TotalCost", sid, 0, "", FALSE, 0))

\* s.Copy() into a new snapshot
DoCopy ==
  \E sid \in DOMAIN snaps :
    /\ nops < MaxOps
    /\ SnapIDs \ DOMAIN snaps # {}
    /\ snaps' = (NewAddr :> CopyRefs(sid, NewAddr)) @@ snaps
    /\ maps' = (NewAddr :> Copy(View(sid)).elements) @@ maps
    /\ lrus' = (NewAddr :> Copy(View(sid)).lru) @@ lrus
    /\ lastOp' = Op("Copy", sid, 0, "", FALSE, NewAddr)
    /\ evicted' = <<>>
    /\ nops' = nops + 1
    /\ UNCHANGED <<status, ptr, writers, walk>>

\* StatsCachePointer.Replace: the snapshot is published
DoReplace ==
  \E sid \in DOMAIN snaps :
    /\ nops < MaxOps
    /\ ptr' = sid
    /\ lastOp' = Op("Replace", sid, 0, "", FALSE, 0)
    /\ evicted' = <<>>
    /\ nops' = nops + 1
    /\ UNCHANGED <<snaps, maps, lrus, status, writers, walk>>

Next ==
  \/ DoPut
  \/ DoGet
  \/ DoDel
  \/ DoSetCapacity
  \/ DoTotalCost
  \/ DoCopy
  \/ DoReplace

Spec == Init /\ [][Next]_vars

(***************************************************************************)
(* The cache pointer under contention (benchCopyAndUpdate): every writer   *)
(* loads the pointer, derives a snapshot with CopyAndUpdate and replaces   *)
(* the pointer.  The pointer first holds a new cache, or one that already  *)
(* holds a table.                                                          *)
(***************************************************************************)
PtrInit ==
  /\ snaps = (1 :> [elements |-> 1, lru |-> 1])
  /\ \E c \in Caps, withTable \in BOOLEAN, tblID \in TableIDs, tbl \in TableNames :
      \E colOrd \in ItemOrders(tbl, FALSE), idxOrd \in ItemOrders(tbl, TRUE) :
       LET W0 == [s |-> NewStatsLruCache(c), status |-> [i \in Items |-> 1], log |-> <<>>]
           W == IF withTable THEN Put(W0, tblID, tbl, TRUE, colOrd, idxOrd) ELSE W0
       IN /\ maps = (1 :> W.s.elements)
          /\ lrus = (1 :> W.s.lru)
          /\ status = W.status
  /\ ptr = 1
  /\ writers = [w \in Writers |-> NoWriter]
  /\ lastOp = Op("New", 1, 0, "", FALSE, 0)
  /\ evicted = <<>>
  /\ nops = 0
  /\ walk = NoWalk

\* StatsCachePointer.Load
Load == ptr

\* cache := c.Load()
WLoad(w) ==
  /\ writers[w].pc = "idle"
  /\ writers' = [writers EXCEPT ![w].pc = "loaded", ![w].loaded = Load]
  /\ lastOp' = Op("Load", Load, 0, "", FALSE, w)
  /\ UNCHANGED <<snaps, maps, lrus, status, ptr, evicted, nops, walk>>

\* cache.CopyAndUpdate([]*statistics.Table{t1}, nil): Copy, then Put(id, t1,
\* true) on the copy
WCopyAndUpdate(w) ==
  /\ writers[w].pc = "loaded"
  /\ SnapIDs \ DOMAIN snaps # {}
  /\ \E tblID \in TableIDs, tbl \in TableNames :
      \E colOrd \in ItemOrders(tbl, FALSE), idxOrd \in ItemOrders(tbl, TRUE) :
       LET old == writers[w].loaded
           h == CopyRefs(old, NewAddr)
           copy == Copy(View(old))
           maps1 == (NewAddr :> copy.elements) @@ maps
           lrus1 == (NewAddr :> copy.lru) @@ lrus
           W == Put([s |-> Deref(h, maps1, lrus1), status |-> status, log |-> <<>>],
                    tblID, tbl, TRUE, colOrd, idxOrd)
       IN /\ snaps' = (NewAddr :> h) @@ snaps
          /\ maps' = [maps1 EXCEPT ![h.elements] = W.s.elements]
          /\ lrus' = [lrus1 EXCEPT ![h.lru] = W.s.lru]
          /\ status' = W.status
          /\ evicted' = W.log
          /\ writers' = [writers EXCEPT ![w].pc = "derived", ![w].derived = NewAddr,
                                        ![w].tblID = tblID, ![w].tbl = tbl]
          /\ lastOp' = Op("CopyAndUpdate", NewAddr, tblID, tbl, TRUE, w)
  /\ UNCHANGED <<ptr, nops, walk>>

\* c.Replace(...)
WReplace(w) ==
  /\ writers[w].pc = "derived"
  /\ ptr' = writers[w].derived
  /\ writers' = [writers EXCEPT ![w].pc = "done"]
  /\ lastOp' = Op("Replace", writers[w].derived, 0, "", FALSE, w)
  /\ UNCHANGED <<snaps, maps, lrus, status, evicted, nops, walk>>

PtrNext == \E w \in Writers : WLoad(w) \/ WCopyAndUpdate(w) \/ WReplace(w)

PtrSpec == PtrInit /\ [][PtrNext]_vars

(***************************************************************************)
(* evictIfNeeded step by step: SetCapacity on snapshot 1 sets the capacity *)
(* and walks the list one iteration at a time.  The snapshot is filled by  *)
(* Put while it is unbounded.                                              *)
(***************************************************************************)
\* Put on the unbounded snapshot
EPut ==
  /\ walk.pc = "idle"
  /\ Unbounded(View(1))
  /\ \E tblID \in TableIDs, tbl \in TableNames, move \in BOOLEAN :
      \E colOrd \in ItemOrders(tbl, FALSE), idxOrd \in ItemOrders(tbl, TRUE) :
       Done(1, Put(World(1), tblID, tbl, move, colOrd, idxOrd),
            Op("Put", 1, tblID, tbl, move, 0))

\* SetCapacity up to the loop of evictIfNeeded: curr := c.cache.Back()
ESetCapacity ==
  \E c \in Caps :
    /\ walk.pc = "idle"
    /\ nops < MaxOps
    /\ lrus' = [lrus EXCEPT ![snaps[1].lru].capacity = IF c < 1 THEN MaxInt64 ELSE c]
    /\ walk' = [pc |-> "evict", curr |-> Back(View(1).lru.cache),
                id |-> 0, start |-> ListKeys(View(1).lru.cache)]
    /\ evicted' = <<>>
    /\ lastOp' = Op("SetCapacity", 1, 0, "", FALSE, c)
    /\ nops' = nops + 1
    /\ UNCHANGED <<snaps, maps, status, ptr, writers>>

\* the condition of the loop
EvictGoesOn ==
  /\ View(1).lru.trackingCost > View(1).lru.capacity
  /\ walk.curr # Nil

\* one iteration of the loop (the touches are not recorded here)
EvictStep ==
  /\ walk.pc = "evict"
  /\ EvictGoesOn
  /\ LET W == evictOne(World(1), walk.curr, [id |-> walk.id, start |-> walk.start])
     IN /\ maps' = [maps EXCEPT ![snaps[1].elements] = W.s.elements]
        /\ lrus' = [lrus EXCEPT ![snaps[1].lru] = W.s.lru]
        /\ status' = W.status
  /\ walk' = [walk EXCEPT !.curr = Prev(View(1).lru.cache, walk.curr)]
  /\ UNCHANGED <<snaps, ptr, writers, lastOp, evicted, nops>>

\* the loop ends and SetCapacity returns
EvictReturn ==
  /\ walk.pc = "evict"
  /\ ~EvictGoesOn
  /\ walk' = NoWalk
  /\ UNCHANGED <<snaps, maps, lrus, status, ptr, writers, lastOp, evicted, nops>>

EvictNext == EPut \/ ESetCapacity \/ EvictStep \/ EvictReturn

\* the goroutine that called SetCapacity keeps running
EvictSpec ==
  Init /\ [][EvictNext]_vars /\ WF_vars(EvictStep) /\ WF_vars(EvictReturn)

(***************************************************************************)
(* Shape of the state.                                                     *)
(***************************************************************************)
TypeOK ==
  /\ DOMAIN snaps \subseteq SnapIDs
  /\ ptr \in DOMAIN snaps
  /\ \A sid \in DOMAIN snaps : DOMAIN View(sid).elements \subseteq TableIDs
  /\ walk.pc \in {"idle", "evict"}

(***************************************************************************)
(* Properties.                                                             *)
(***************************************************************************)
RECURSIVE SumMemUsage(_)
SumMemUsage(cache) ==
  IF cache = <<>> THEN 0 ELSE Head(cache).innerMemUsage + SumMemUsage(Tail(cache))

\* the operations that take the write lock of a snapshot
Mutators == {"Put", "Get", "Del", "SetCapacity", "TotalCost"}

\* the items of the tables a cache holds
ItemsOf(s) ==
  UNION {{Tables[s.elements[i].tbl].Columns[c] : c \in DOMAIN Tables[s.elements[i].tbl].Columns}
         \cup {Tables[s.elements[i].tbl].Indices[c] : c \in DOMAIN Tables[s.elements[i].tbl].Indices}
         : i \in DOMAIN s.elements}

\* C1: in every snapshot, Cost() is the sum of the stored
\* itemMemUsage.trackingMemUsage of the entries of the inner LRU.
CostIsSumOfStored ==
  \A sid \in DOMAIN snaps : Cost(View(sid)) = SumMemUsage(View(sid).lru.cache)

\* an operation whose eviction shrank one entry partially and removed
\* another, and left entries in the LRU
CostAfterMixedEviction ==
  /\ lastOp.op \in Mutators
  /\ \E i, j \in DOMAIN evicted : evicted[i].removed /\ ~evicted[j].removed
  /\ View(lastOp.s).lru.cache # <<>>

\* C2: after every completed operation Cost() <= capacity, unless an item of
\* the snapshot is bigger than the capacity, and then that item is all
\* evicted.
CostWithinCapacity ==
  \A sid \in DOMAIN snaps :
    \/ Cost(View(sid)) <= capacity(View(sid))
    \/ \E item \in ItemsOf(View(sid)) :
         /\ ItemMems[item][1] > capacity(View(sid))
         /\ IsAllEvicted(status, item)

\* C3: a column or index of an outer entry whose cached memory usage is at
\* least 1 has its key in the inner index.
TrackedItemsAreIndexed ==
  \A sid \in DOMAIN snaps : \A tblID \in DOMAIN View(sid).elements :
    LET e == View(sid).elements[tblID]
    IN /\ \A c \in DOMAIN e.tblMemUsage.ColumnsMemUsage :
            e.tblMemUsage.ColumnsMemUsage[c] >= 1
              => <<tblID, FALSE, c>> \in View(sid).lru.elements
       /\ \A c \in DOMAIN e.tblMemUsage.IndicesMemUsage :
            e.tblMemUsage.IndicesMemUsage[c] >= 1
              => <<tblID, TRUE, c>> \in View(sid).lru.elements

\* a table with a column that eviction shrank and kept, and a column that
\* eviction removed from the inner LRU
IndexedAfterEviction ==
  /\ \E i \in DOMAIN evicted : evicted[i].removed /\ evicted[i].key[1] \in DOMAIN View(lastOp.s).elements
  /\ \E i \in DOMAIN evicted :
       /\ ~evicted[i].removed
       /\ evicted[i].key \in View(lastOp.s).lru.elements
       /\ evicted[i].key[1] \in DOMAIN View(lastOp.s).elements

\* C4: every inner entry belongs to an outer entry whose current table has
\* that column or index id; ids that a replacing Put dropped are gone.
InnerEntriesBelongToTables ==
  \A sid \in DOMAIN snaps :
    /\ \A k \in View(sid).lru.elements :
         /\ k[1] \in DOMAIN View(sid).elements
         /\ k[3] \in DOMAIN TableItems(View(sid).elements[k[1]].tbl, k[2])
    /\ \A i \in 1..Len(View(sid).lru.cache) :
         /\ View(sid).lru.cache[i].tblID \in DOMAIN View(sid).elements
         /\ View(sid).lru.cache[i].id \in
              DOMAIN TableItems(View(sid).elements[View(sid).lru.cache[i].tblID].tbl,
                                View(sid).lru.cache[i].isIndex)

\* Put(1, T1) has replaced table T3 = {1, 2}: column 2 is gone and column 1
\* is still there
ReplacedTableDroppedColumn ==
  /\ lastOp.op = "Put" /\ lastOp.tbl = "T1" /\ lastOp.old = "T3"
  /\ evicted = <<>>
  /\ View(lastOp.s).lru.elements = {<<lastOp.tblID, FALSE, 1>>}
  /\ Cost(View(lastOp.s)) = 2
  /\ status["a"] = 1 /\ status["c"] = 1

\* C5: the outer map changes only through Put and Del: Put(id, t) makes
\* Get(id) return (t, true), Del(id) removes id, and nothing else (no other
\* operation, no eviction) changes what Get returns for any id.
OuterChangesOnlyByPutDel ==
  [][\A sid \in DOMAIN snaps : \A tblID \in TableIDs :
       IF lastOp'.op = "Put" /\ lastOp'.s = sid /\ lastOp'.tblID = tblID
       THEN GetResult(View(sid)', tblID) = <<lastOp'.tbl, TRUE>>
       ELSE IF lastOp'.op = "Del" /\ lastOp'.s = sid /\ lastOp'.tblID = tblID
       THEN GetResult(View(sid)', tblID) = <<"", FALSE>>
       ELSE GetResult(View(sid)', tblID) = GetResult(View(sid), tblID)]_vars

\* a table all of whose items have been evicted is still in the outer map
EmptySkeletonRemains ==
  /\ evicted # <<>>
  /\ \E tblID \in DOMAIN View(lastOp.s).elements :
       /\ \A k \in View(lastOp.s).lru.elements : k[1] # tblID
       /\ \E i \in DOMAIN evicted : evicted[i].key[1] = tblID
       /\ SLen(View(lastOp.s)) = 2

\* C6: Copy returns a cache equal to its source: the same outer map, the
\* same capacity and cost, the same inner entries in the same order; the
\* source is as it was and nothing is evicted.
CopyEqualsSource ==
  [][lastOp'.op = "Copy" /\ nops' = nops + 1 =>
       /\ Deref(snaps'[lastOp'.c], maps', lrus') = View(lastOp'.s)
       /\ Deref(snaps'[lastOp'.s], maps', lrus') = View(lastOp'.s)
       /\ status' = status
       /\ evicted' = <<>>]_vars

\* a copy of a cache that holds two or more entries, one of them shrunk by
\* eviction, and a table
CopiedAfterEviction ==
  /\ lastOp.op = "Copy"
  /\ Len(View(lastOp.c).lru.cache) >= 2
  /\ \E i \in 1..Len(View(lastOp.c).lru.cache) :
       View(lastOp.c).lru.cache[i].innerMemUsage
         < ItemMems[View(lastOp.c).lru.cache[i].innerItem][1]
  /\ Front(View(lastOp.c)) = Front(View(lastOp.s))
  /\ Front(View(lastOp.c)) # 0

\* C7: an operation on one snapshot, and the publishing of a snapshot,
\* leave every other snapshot as it was: outer map, inner index, LRU order,
\* stored memory usage, capacity and cost.
CopyIsolation ==
  [][\A sid \in DOMAIN snaps :
       (lastOp'.op \in Mutators /\ lastOp'.s = sid) \/ View(sid)' = View(sid)]_vars

\* an eviction in a copy has shrunk an item that the source still holds in
\* its LRU with the memory usage it had
EvictionInCopyOfSharedItem ==
  /\ lastOp.op \in Mutators
  /\ evicted # <<>>
  /\ \E sid \in DOMAIN snaps \ {lastOp.s} :
       \E i \in 1..Len(View(sid).lru.cache) :
         /\ View(sid).lru.cache[i].innerMemUsage
              > TrackingMemUsage(status, View(sid).lru.cache[i].innerItem)
         /\ \E j \in DOMAIN evicted :
              evicted[j].key = KeyOf(View(sid).lru.cache[i])

\* C8: the pointer always holds the first snapshot or the snapshot a writer
\* derived and replaced it with, which holds the table that writer added;
\* when the writers that loaded the same snapshot S are done, the pointer
\* holds the snapshot one of them derived, with the table of that writer
\* and every table of S.
PointerHoldsDerivedSnapshot ==
  /\ Load \in DOMAIN snaps
  /\ \/ Load = 1 /\ \A w \in Writers : writers[w].pc # "done"
     \/ \E w \in Writers :
          /\ writers[w].pc = "done"
          /\ writers[w].derived = Load
          /\ GetResult(View(Load), writers[w].tblID) = <<writers[w].tbl, TRUE>>
          /\ Keys(View(writers[w].loaded)) \subseteq Keys(View(Load))
  /\ \A v, w \in Writers :
       (v # w /\ writers[v].pc = "done" /\ writers[w].pc = "done"
          /\ writers[v].loaded = writers[w].loaded)
       => /\ Load \in {writers[v].derived, writers[w].derived}
          /\ \/ GetResult(View(Load), writers[v].tblID) = <<writers[v].tbl, TRUE>>
             \/ GetResult(View(Load), writers[w].tblID) = <<writers[w].tbl, TRUE>>
          /\ \A tblID \in Keys(View(writers[v].loaded)) :
               \/ tblID \in {writers[v].tblID, writers[w].tblID}
               \/ GetResult(View(Load), tblID) = GetResult(View(writers[v].loaded), tblID)

\* two writers loaded a snapshot that holds a table, added different tables
\* under different ids, and are done: one update is lost
LostUpdate ==
  /\ \A w \in Writers : writers[w].pc = "done" /\ writers[w].loaded = 1
  /\ Keys(View(1)) # {}
  /\ \E v, w \in Writers :
       /\ writers[v].tblID # writers[w].tblID
       /\ Load = writers[w].derived
       /\ writers[v].tblID \notin Keys(View(1))
       /\ writers[v].tblID \notin Keys(View(Load))

\* C9: a second Put of the same table under the same id leaves Cost() as
\* the first Put left it.
PutTwiceSameCost ==
  [][(/\ lastOp.op = "Put" /\ lastOp'.op = "Put" /\ nops' = nops + 1
      /\ lastOp'.s = lastOp.s /\ lastOp'.tblID = lastOp.tblID
      /\ lastOp'.tbl = lastOp.tbl)
     => Cost(View(lastOp.s))' = Cost(View(lastOp.s))]_vars

\* C10: a second SetCapacity(c) leaves the cache and its items as the first
\* one left them.
SetCapacityTwiceSameState ==
  [][(/\ lastOp.op = "SetCapacity" /\ lastOp'.op = "SetCapacity" /\ nops' = nops + 1
      /\ lastOp'.s = lastOp.s /\ lastOp'.c = lastOp.c)
     => /\ View(lastOp.s)' = View(lastOp.s)
        /\ status' = status]_vars

\* C11: an operation other than SetCapacity on a snapshot that is unbounded
\* (made with a capacity < 1, or last set to one), and a SetCapacity(c) with
\* c < 1, drops no item, removes no inner entry by eviction and does not
\* call onEvict: no entry is touched by eviction, every item keeps its stage
\* and the inner index loses no key other than by Del or a replacing Put.
UnboundedNeverEvicts ==
  [][(/\ nops' = nops + 1
      /\ \/ /\ lastOp'.op \in {"Put", "Get", "Del", "TotalCost", "Copy"}
            /\ Unbounded(View(lastOp'.s))
         \/ lastOp'.op = "SetCapacity" /\ lastOp'.c < 1)
     => /\ evicted' = <<>>
        /\ status' = status
        /\ Unbounded(Deref(snaps'[lastOp'.s], maps', lrus'))
        /\ lastOp'.op \in {"Get", "TotalCost", "SetCapacity", "Copy"}
             => Deref(snaps'[lastOp'.s], maps', lrus').lru.elements
                  = View(lastOp'.s).lru.elements]_vars

\* a snapshot that was bounded, was made unbounded by SetCapacity(0) and
\* then took a Put that brought its cost above every bounded capacity
UnboundedAboveEveryCapacity ==
  /\ lastOp.op = "Put"
  /\ Unbounded(View(lastOp.s))
  /\ \A c \in Caps : Cost(View(lastOp.s)) > c
  /\ \E i \in Items : status[i] > 1
  /\ evicted = <<>>
\* C12: every entry of the inner LRU has a stored trackingMemUsage >= 1 (an
\* item whose trackingMemUsage is 0 at Put time is not inserted), the table
\* of such an item is in the outer map all the same, and after a Put, on an
\* empty snapshot, of a table whose only column reports 0: Len() = 1,
\* Cost() = 0 and Front() = 0.
ZeroCostItemNotTracked ==
  \A sid \in DOMAIN snaps :
    LET s == View(sid) IN
    /\ \A i \in 1..Len(s.lru.cache) : s.lru.cache[i].innerMemUsage >= 1
    /\ (/\ lastOp.op = "Put" /\ lastOp.s = sid /\ lastOp.tbl = "T4"
        /\ lastOp.old = "" /\ Keys(s) = {lastOp.tblID})
       => /\ GetResult(s, lastOp.tblID) = <<"T4", TRUE>>
          /\ SLen(s) = 1
          /\ Cost(s) = 0
          /\ Front(s) = 0
          /\ s.lru.elements = {}

\* the table with the zero-cost column was Put on a new snapshot
ZeroCostTablePut ==
  /\ nops = 1
  /\ lastOp.op = "Put" /\ lastOp.tbl = "T4"
  /\ TrackingMemUsage(status, Tables["T4"].Columns[1]) = 0
  /\ SLen(View(lastOp.s)) = 1
  /\ Front(View(lastOp.s)) = 0
\* the entries of a list that belong to table tblID (in = TRUE), or to the
\* other tables (in = FALSE), in the order of the list
RECURSIVE EntriesOf(_, _, _)
EntriesOf(cache, tblID, in) ==
  IF cache = <<>> THEN <<>>
  ELSE (IF (Head(cache).tblID = tblID) = in THEN <<Head(cache)>> ELSE <<>>)
       \o EntriesOf(Tail(cache), tblID, in)

\* C13: after Get(id, true) on a table that has an inner entry, the entries
\* of table id are at the front of the list, before every entry of another
\* table, the entries of the other tables keep their order, Front() = id
\* and nothing else of the snapshot changes; Get(id, false) and Get of an
\* absent id leave the snapshot as it is.
GetMovesTableToFront ==
  [][(lastOp'.op = "Get" /\ nops' = nops + 1)
     => LET before == View(lastOp'.s)
            after == Deref(snaps'[lastOp'.s], maps', lrus')
            id == lastOp'.tblID
            mine == EntriesOf(after.lru.cache, id, TRUE)
        IN IF lastOp'.move /\ id \in Keys(before)
           THEN /\ after.lru.cache = mine \o EntriesOf(before.lru.cache, id, FALSE)
                /\ Len(mine) = Len(EntriesOf(before.lru.cache, id, TRUE))
                /\ \A i \in 1..Len(mine) :
                     \E j \in 1..Len(before.lru.cache) : before.lru.cache[j] = mine[i]
                /\ mine # <<>> => Front(after) = id
                /\ after.elements = before.elements
                /\ after.lru.elements = before.lru.elements
                /\ Cost(after) = Cost(before)
                /\ evicted' = <<>> /\ status' = status
           ELSE after = before /\ status' = status]_vars

\* Get(id, true) was the third operation on a snapshot that holds inner
\* entries of two tables, one of them table id, now at the front
TouchedTableAtFront ==
  /\ lastOp.op = "Get" /\ lastOp.move
  /\ nops = 3
  /\ LET s == View(lastOp.s)
     IN /\ Front(s) = lastOp.tblID
        /\ \E i \in 1..Len(s.lru.cache) : s.lru.cache[i].tblID # lastOp.tblID
        /\ Len(EntriesOf(s.lru.cache, lastOp.tblID, TRUE)) >= 2
\* position of a key in a sequence of keys, 0 when it is not in it
PosIn(keys, key) ==
  IF \E i \in 1..Len(keys) : keys[i] = key
  THEN CHOOSE i \in 1..Len(keys) : keys[i] = key
  ELSE 0

\* C14: in every call of evictIfNeeded the walk goes from the back to the
\* front: an entry is touched only after every entry that was behind it in
\* the list when the call began has been touched (so the back entry is the
\* first and the entry just put at the front the last); and with capacity 4,
\* Put of a table with one column of cost 2 and then of a table with one
\* column of cost 3 touches exactly the column of the first table, which is
\* removed, Cost() becomes 3 and both outer entries remain.
EvictionFromBack ==
  /\ \A i \in DOMAIN evicted :
       LET e == evicted[i] IN
       /\ PosIn(e.start, e.key) > 0
       /\ \A p \in (PosIn(e.start, e.key) + 1)..Len(e.start) :
            \E j \in 1..(i - 1) : evicted[j].run = e.run /\ evicted[j].key = e.start[p]
  /\ (/\ nops = 2 /\ lastOp.op = "Put" /\ lastOp.tbl = "T2" /\ lastOp.old = ""
      /\ capacity(View(1)) = 4
      /\ \E id \in Keys(View(1)) : id # lastOp.tblID /\ View(1).elements[id].tbl = "T1")
     => /\ Len(evicted) = 1
        /\ evicted[1].removed
        /\ evicted[1].key[1] # lastOp.tblID
        /\ Cost(View(1)) = 3
        /\ SLen(View(1)) = 2
        /\ \E id \in Keys(View(1)) : GetResult(View(1), id) = <<"T1", TRUE>>

\* a call of evictIfNeeded that began with three entries and touched them all
WalkedThreeEntries ==
  \E i \in DOMAIN evicted :
    /\ Len(evicted[i].start) = 3
    /\ \A p \in 1..3 :
         \E j \in DOMAIN evicted :
           evicted[j].run = evicted[i].run /\ evicted[j].key = evicted[i].start[p]
\* the touches of the log that belong to the call of evictIfNeeded named r
TouchesOf(r) == {i \in DOMAIN evicted : evicted[i].run = r}

\* the call r began with two or more entries and the first dropEvicted of
\* every entry it touched shrank the entry only partially
AllPartiallyEvictable(r) ==
  \A i \in TouchesOf(r) :
    /\ Len(evicted[i].start) >= 2
    /\ (\A j \in TouchesOf(r) : j < i => evicted[j].key # evicted[i].key)
         => ~evicted[i].removed

\* C16: within one call of evictIfNeeded on two or more entries that are
\* all only partially evictable, dropEvicted is applied to an entry at most
\* once: an entry that was shrunk and moved to the front is not touched
\* again by the same call.
EntryDroppedOncePerRun ==
  \A i, j \in DOMAIN evicted :
    (/\ evicted[i].run = evicted[j].run
     /\ evicted[i].key = evicted[j].key
     /\ AllPartiallyEvictable(evicted[i].run))
    => i = j
\* C15: every call of evictIfNeeded comes to its end, whatever the list and
\* the capacity, also when its entries are shrunk only partially and moved
\* to the front.
EvictionTerminates == (walk.pc = "evict") ~> (walk.pc = "idle")

\* the first SetCapacity of a snapshot that held the items a, b and c has
\* returned and its call of evictIfNeeded dropped a and b twice and c once:
\* a and b were shrunk, moved to the front and walked a second time
LongWalkReturned ==
  /\ walk.pc = "idle"
  /\ lastOp.op = "SetCapacity"
  /\ nops = 3
  /\ Len(walk.start) = 0
  /\ status["a"] = 3 /\ status["b"] = 3 /\ status["c"] = 2
  /\ View(1).lru.cache = <<>>
\* C17: in every snapshot the list and the index of the inner LRU agree: a
\* key is the key of at most one element of the list, and the index holds a
\* key if and only if the list holds an element with that key.
ListAndIndexAgree ==
  \A sid \in DOMAIN snaps :
    LET c == View(sid).lru IN
    /\ \A i, j \in 1..Len(c.cache) : KeyOf(c.cache[i]) = KeyOf(c.cache[j]) => i = j
    /\ c.elements = {KeyOf(c.cache[i]) : i \in 1..Len(c.cache)}

\* a copy in which an eviction removed one entry and moved another to the
\* front, while its source holds two entries or more
AgreeAfterDelEvictionCopy ==
  /\ lastOp.op \in {"Put", "SetCapacity"}
  /\ lastOp.s # 1
  /\ \E i, j \in DOMAIN evicted : evicted[i].removed /\ ~evicted[j].removed
  /\ Len(View(lastOp.s).lru.cache) >= 1
  /\ Len(View(1).lru.cache) >= 2
\* C18: Del(id) of a table the snapshot holds removes the outer entry and
\* every inner entry of table id, lowers Cost() by the sum of the stored
\* usages of the removed entries, evicts nothing, and leaves the entries of
\* the other tables, their order, the other outer entries and the capacity
\* as they were; Del(id) of an absent id changes nothing (so a second
\* Del(id) changes nothing).
DelRemovesOnlyItsTable ==
  [][(lastOp'.op = "Del" /\ nops' = nops + 1)
     => LET before == View(lastOp'.s)
            after == Deref(snaps'[lastOp'.s], maps', lrus')
            id == lastOp'.tblID
        IN /\ evicted' = <<>> /\ status' = status
           /\ id \notin Keys(after)
           /\ IF id \in Keys(before)
              THEN /\ after.elements = [i \in Keys(before) \ {id} |-> before.elements[i]]
                   /\ after.lru.cache = EntriesOf(before.lru.cache, id, FALSE)
                   /\ after.lru.elements = {k \in before.lru.elements : k[1] # id}
                   /\ Cost(after) = Cost(before)
                                      - SumMemUsage(EntriesOf(before.lru.cache, id, TRUE))
                   /\ capacity(after) = capacity(before)
              ELSE after = before]_vars

\* Del removed a table whose column and index were both in the inner LRU
\* (neither was ever dropped) from a snapshot that keeps an entry of another
\* table
DelOfTableWithIndex ==
  /\ lastOp.op = "Del" /\ lastOp.old = "T5"
  /\ status["a"] = 1 /\ status["b"] = 1
  /\ Len(View(lastOp.s).lru.cache) >= 1
  /\ Cost(View(lastOp.s)) >= 1
\* C19: after a completed Put every entry of the inner LRU of the snapshot
\* holds the item that the table the outer map has for the entry's table id
\* holds under the entry's column or index id; a Put that replaces a tracked
\* item by one whose trackingMemUsage is below 1 leaves no entry with the
\* old item and its cost.
InnerEntryHoldsTableItem ==
  lastOp.op = "Put" =>
    LET s == View(lastOp.s) IN
    \A i \in 1..Len(s.lru.cache) :
      LET e == s.lru.cache[i] IN
      /\ e.tblID \in Keys(s)
      /\ e.id \in DOMAIN TableItems(s.elements[e.tblID].tbl, e.isIndex)
      /\ e.innerItem = TableItems(s.elements[e.tblID].tbl, e.isIndex)[e.id]
\* C20: on a snapshot that was never copied and holds no item under two
\* keys, after a completed Put, Del, SetCapacity or TotalCost the stored
\* usage of every entry of the inner LRU is the current tracking memory
\* usage of its item.
StoredUsageIsCurrent ==
  (/\ DOMAIN snaps = {1}
   /\ lastOp.op \in {"Put", "Del", "SetCapacity", "TotalCost"}
   /\ \A i, j \in 1..Len(View(1).lru.cache) :
        View(1).lru.cache[i].innerItem = View(1).lru.cache[j].innerItem => i = j)
  => \A i \in 1..Len(View(1).lru.cache) :
       View(1).lru.cache[i].innerMemUsage
         = TrackingMemUsage(status, View(1).lru.cache[i].innerItem)
====
